---- MODULE Spec2Model ----
(***************************************************************************)
(* qbittorrent-sync: the reconciliation engine (sync.py) and the daemon    *)
(* loop that drives it (cli.py), as a state machine.  One sync cycle is    *)
(* run_sync: pre-sync stale cleanup of every child, connect to the master, *)
(* fetch the master snapshot, then per child connect, fetch, diff, narrow  *)
(* the file-sync candidates, report, and (live mode) apply.  Every client  *)
(* call is one step that either succeeds or raises; each call is appended  *)
(* to the cycle's call log.                                                *)
(***************************************************************************)
EXTENDS Integers, Sequences, FiniteSets, TLC

\* ------------------------------------------------------------------ bounds

\* At most this many client calls raise in one behaviour.
MaxFailures == 1
\* Every torrent has this many files.
NumFiles == 2

\* ------------------------------------------------------- program constants

min_seeding_time_minutes == 10

PAUSED_STATES == {"pausedup", "pauseddl"}

COMPLETED_STATES ==
  {"uploading", "stalledup", "forcedup", "pausedup", "queuedup",
   "checkingup", "seeding", "completed"}

STALE_STATES == {"error", "missingfiles"}

\* ------------------------------------------------------------------ domains

Hashes == {"h1", "h2"}

\* cfg.children, in configuration order.
children == <<"child-1", "child-2">>

NumChildren == Len(children)

MASTER == "master"

\* Torrent states as the qBittorrent API spells them.
RawStates ==
  {"uploading", "stalledUP", "forcedUP", "pausedUP", "queuedUP",
   "checkingUP", "seeding", "completed", "pausedDL", "stalledDL",
   "downloading", "error", "missingFiles"}

\* str.lower() on the state strings the model uses.
lower(s) ==
  CASE s = "stalledUP" -> "stalledup"
    [] s = "forcedUP" -> "forcedup"
    [] s = "pausedUP" -> "pausedup"
    [] s = "queuedUP" -> "queuedup"
    [] s = "checkingUP" -> "checkingup"
    [] s = "stalledDL" -> "stalleddl"
    [] s = "pausedDL" -> "pauseddl"
    [] s = "missingFiles" -> "missingfiles"
    [] OTHER -> s

min_seed_secs == min_seeding_time_minutes * 60

\* ------------------------------------------------------------- data types

\* TorrentEntry.file_priorities: None until loaded.
None == [loaded |-> FALSE, list |-> <<>>]

Loaded(l) == [loaded |-> TRUE, list |-> l]

\* bool(entry.file_priorities): not None and not the empty list.
truthy(fp) == fp.loaded /\ Len(fp.list) > 0

\* any(p == 0 for p in file_priorities)
any_zero(l) == \E i \in 1..Len(l) : l[i] = 0

AllSelected == [i \in 1..NumFiles |-> 1]

\* The second file deselected, as in [1, 0, 1].
SecondDeselected == [i \in 1..NumFiles |-> IF i = 2 THEN 0 ELSE 1]

\* A raw torrent record as a client's torrents_info / torrents_files give it.
\* The progress is held in percent: 100 is the API's 1.0.
Torrent(st, pr, seed, sp, dp, cat, prios) ==
  [state |-> st, progress |-> pr, seeding_time |-> seed, save_path |-> sp,
   download_path |-> dp, category |-> cat, prios |-> prios]

\* _torrent_to_entry: the sync-relevant fields, file priorities not loaded.
torrent_to_entry(h, t) ==
  [hash |-> h, save_path |-> t.save_path, category |-> t.category,
   download_path |-> t.download_path, file_priorities |-> None]

\* A dict without some keys.
Without(f, S) == [k \in (DOMAIN f) \ S |-> f[k]]

EmptyMap == [k \in {} |-> 0]

\* The elements of set S in the iteration order ord (a sequence over a superset).
RECURSIVE InOrder(_, _)
InOrder(ord, S) ==
  IF ord = <<>> THEN <<>>
  ELSE IF Head(ord) \in S THEN <<Head(ord)>> \o InOrder(Tail(ord), S)
       ELSE InOrder(Tail(ord), S)

Range(s) == {s[i] : i \in 1..Len(s)}

\* ------------------------------------------------------------------- state

VARIABLES
  dry_run,          \* the effective dry-run flag (cli.py:102)
  sync_files,       \* cfg.sync.sync_file_selections (sync.py:561)
  treat_stopped,    \* cfg.sync.treat_stopped_as_removed (sync.py:562)
  hashOrder,        \* the order in which sets and listings of hashes iterate
  master,           \* the master instance: hash -> raw torrent
  child,            \* the child instances: name -> (hash -> raw torrent)
  paused,           \* name -> set of hashes paused on that child
  pc,               \* position in _run_daemon / run_sync
  ci,               \* index into cfg.children of the current loop
  master_torrents,  \* run_sync's master snapshot: hash -> TorrentEntry
  child_torrents,   \* the current child's snapshot: hash -> TorrentEntry
  diff,             \* the current child's SyncDiff
  queue,            \* the hashes the current loop still has to visit
  needed,           \* the list _filter_needed_file_syncs is building
  visited,          \* the (category, hash) items the current apply has reached
  counts,           \* deleted / added / recategorized / relocated / file_synced
  calls,            \* the client calls issued in the current cycle, in order
  trace,            \* the stages run_sync has entered in the current cycle
  result,           \* how the last run_sync ended: none / returned / raised
  reload_failed,    \* the last load_config of the daemon loop raised
  fails             \* client calls that have raised so far

cfgvars == <<dry_run, sync_files, treat_stopped, hashOrder>>

vars ==
  <<dry_run, sync_files, treat_stopped, hashOrder, master, child, paused, pc,
    ci, master_torrents, child_torrents, diff, queue, needed, visited, counts,
    calls, trace, result, reload_failed, fails>>

\* ------------------------------------------------------- snapshot fetcher

\* A variant of eligible whose seeding-time threshold is exclusive.
eligible_above_threshold(t, min_seeding_seconds, treat_stopped_as_removed) ==
  LET state == lower(t.state)
      is_completed == state \in COMPLETED_STATES
  IN  /\ ~(treat_stopped_as_removed /\ state \in PAUSED_STATES)
      /\ ~(~is_completed /\ t.progress < 100)
      /\ ~(t.seeding_time <= min_seeding_seconds)

\* A variant of eligible that applies the stopped-as-removed test after the
\* completeness test, to incomplete torrents only.
eligible_stopped_if_incomplete(t, min_seeding_seconds, treat_stopped_as_removed) ==
  LET state == lower(t.state)
      is_completed == state \in COMPLETED_STATES
  IN  /\ ~(~is_completed /\ t.progress < 100)
      /\ ~(treat_stopped_as_removed /\ state \in PAUSED_STATES
            /\ ~is_completed)
      /\ ~(t.seeding_time < min_seeding_seconds)

\* The eligibility test of _fetch_master_torrents for one raw torrent.
eligible(t, min_seeding_seconds, treat_stopped_as_removed) ==
  LET state == lower(t.state)
      is_completed == state \in COMPLETED_STATES
  IN  /\ ~(treat_stopped_as_removed /\ state \in PAUSED_STATES)
      /\ ~(~is_completed /\ t.progress < 100)
      /\ ~(t.seeding_time < min_seeding_seconds)

\* The map _fetch_master_torrents builds from torrents_info, before the
\* per-entry file-priority load.
fetch_master_torrents(torrents, min_seeding_seconds, treat_stopped_as_removed) ==
  LET keep == {h \in DOMAIN torrents :
                 eligible(torrents[h], min_seeding_seconds,
                          treat_stopped_as_removed)}
  IN  [h \in keep |-> torrent_to_entry(h, torrents[h])]

\* _fetch_child_torrents: every torrent of the child, unfiltered.
fetch_child_torrents(torrents) ==
  [h \in DOMAIN torrents |-> torrent_to_entry(h, torrents[h])]

\* ------------------------------------------------------------------- diff

\* A variant of compute_diff whose relocation test looks at the save path
\* only.
compute_diff_save_path_only(m, c, ord) ==
  LET master_hashes == DOMAIN m
      child_hashes == DOMAIN c
      both == master_hashes \cap child_hashes
  IN  [to_delete |-> InOrder(ord, child_hashes \ master_hashes),
       to_add |-> InOrder(ord, master_hashes \ child_hashes),
       to_recategorize |->
         InOrder(ord, {h \in both : m[h].category # c[h].category}),
       to_relocate |->
         InOrder(ord, {h \in both : m[h].save_path # c[h].save_path}),
       to_sync_files |->
         InOrder(ord, {h \in both :
                         /\ truthy(m[h].file_priorities)
                         /\ any_zero(m[h].file_priorities.list)})]

\* The entries of a diff are references into the two snapshot maps: the
\* lists hold the hashes, in the iteration order ord of the hash sets.
compute_diff(m, c, ord) ==
  LET master_hashes == DOMAIN m
      child_hashes == DOMAIN c
      both == master_hashes \cap child_hashes
  IN  [to_delete |-> InOrder(ord, child_hashes \ master_hashes),
       to_add |-> InOrder(ord, master_hashes \ child_hashes),
       to_recategorize |->
         InOrder(ord, {h \in both : m[h].category # c[h].category}),
       to_relocate |->
         InOrder(ord, {h \in both :
                         \/ m[h].save_path # c[h].save_path
                         \/ m[h].download_path # c[h].download_path}),
       to_sync_files |->
         InOrder(ord, {h \in both :
                         /\ truthy(m[h].file_priorities)
                         /\ any_zero(m[h].file_priorities.list)})]

EmptyDiff ==
  [to_delete |-> <<>>, to_add |-> <<>>, to_recategorize |-> <<>>,
   to_relocate |-> <<>>, to_sync_files |-> <<>>]

\* SyncDiff.is_empty
is_empty(d) ==
  /\ d.to_delete = <<>>
  /\ d.to_add = <<>>
  /\ d.to_recategorize = <<>>
  /\ d.to_relocate = <<>>
  /\ d.to_sync_files = <<>>

\* A variant of ids_to_deselect that does not look at the child's files.
ids_deselected_on_master(master_prios, child_prios) ==
  {i - 1 : i \in {j \in 1..Len(master_prios) : master_prios[j] = 0}}

\* The file ids (0-based) the master has deselected and the child has not:
\* mp == 0 and i < len(child_files) and child_files[i].priority != 0.
ids_to_deselect(master_prios, child_prios) ==
  {i - 1 : i \in {j \in 1..Len(master_prios) :
                    /\ master_prios[j] = 0
                    /\ j - 1 < Len(child_prios)
                    /\ child_prios[j] # 0}}

\* has_diff of _filter_needed_file_syncs.
has_diff(master_prios, child_prios) ==
  \E j \in 1..Len(master_prios) :
    /\ master_prios[j] = 0
    /\ j - 1 < Len(child_prios)
    /\ child_prios[j] # 0

\* deselected_ids of _apply_adds: the 0-based indices at priority zero.
deselected_ids(prios) == {i - 1 : i \in {j \in 1..Len(prios) : prios[j] = 0}}

\* ---------------------------------------------------------- stale cleaner

\* A torrent _cleanup_stale_torrents flags: an error state or no progress.
is_stale(t) == lower(t.state) \in STALE_STATES \/ t.progress <= 0

to_remove(torrents) == {h \in DOMAIN torrents : is_stale(torrents[h])}

\* ------------------------------------------------------- client capability

MutatingOps ==
  {"torrents_add", "torrents_delete", "torrents_pause", "torrents_resume",
   "torrents_set_category", "torrents_set_save_path",
   "torrents_set_download_path", "torrents_file_priority"}

ReadOps == {"auth_log_in", "torrents_info", "torrents_files", "torrents_export"}

\* One client call: the instance, the operation, the hashes it names, its
\* other arguments, and how it ended: "ok", "raised" (any exception) or
\* "conflict" (Conflict409Error).
Call(cl, op, hs, arg, res) ==
  [cl |-> cl, op |-> op, hs |-> hs, arg |-> arg, res |-> res]

\* The function of sync.py that issues the calls made at a position.
caller(p) ==
  CASE p \in {"pre_connect", "m_connect", "c_connect"} -> "_connect"
    [] p \in {"pre_clean", "pre_delete"} -> "_cleanup_stale_torrents"
    [] p \in {"m_fetch", "m_files"} -> "_fetch_master_torrents"
    [] p = "c_fetch" -> "_fetch_child_torrents"
    [] p = "c_filter" -> "_filter_needed_file_syncs"
    [] p = "a_delete" -> "_apply_deletes"
    [] p \in {"a_add", "a_add_files", "a_add_submit", "a_add_prio",
              "a_add_resume"} -> "_apply_adds"
    [] p = "a_recat" -> "_apply_recategorize"
    [] p \in {"a_reloc", "a_reloc_save", "a_reloc_dl", "a_reloc_resume"} ->
         "_apply_relocates"
    [] p \in {"a_fsync", "a_fsync_push"} -> "_apply_file_priority_sync"
    [] OTHER -> "run_sync"

NoArg == [none |-> TRUE]

\* The keyword arguments of the delete issued by _apply_deletes.
apply_delete_kwargs == [delete_files |-> FALSE]

\* A variant of cleanup_delete_kwargs that removes the content too.
cleanup_delete_kwargs_with_files == [delete_files |-> TRUE]

\* The keyword arguments of the delete issued by _cleanup_stale_torrents.
cleanup_delete_kwargs == [delete_files |-> FALSE]

\* The effect of a successful torrents_delete on an instance's torrents.
client_delete(torrents, hs) == Without(torrents, hs)

\* The effect of a successful torrents_add: the torrent appears with the
\* given save path and category, the given download path (the instance's
\* default, none, when the argument is absent), every file selected, and
\* its content found complete on the shared storage.
client_add(torrents, h, kw) ==
  [k \in (DOMAIN torrents) \cup {h} |->
     IF k = h
     THEN Torrent("stalledUP", 100, 0, kw.save_path,
                  IF kw.has_download_path THEN kw.download_path ELSE "",
                  kw.category, AllSelected)
     ELSE torrents[k]]

client_set_category(torrents, h, category) ==
  IF h \in DOMAIN torrents
  THEN [torrents EXCEPT ![h].category = category]
  ELSE torrents

client_set_save_path(torrents, h, save_path) ==
  IF h \in DOMAIN torrents
  THEN [torrents EXCEPT ![h].save_path = save_path]
  ELSE torrents

client_set_download_path(torrents, h, download_path) ==
  IF h \in DOMAIN torrents
  THEN [torrents EXCEPT ![h].download_path = download_path]
  ELSE torrents

\* What a successful torrents_files returns: the file priorities, in order.
files_of(torrents, h) == IF h \in DOMAIN torrents THEN torrents[h].prios ELSE <<>>

\* torrents_file_priority(file_ids, priority): ids are 0-based.
client_file_priority(torrents, h, file_ids, priority) ==
  IF h \in DOMAIN torrents
  THEN [torrents EXCEPT ![h].prios =
          [i \in 1..Len(@) |-> IF (i - 1) \in file_ids THEN priority ELSE @[i]]]
  ELSE torrents


\* ------------------------------------------------------------ configuration

\* What load_config can find at the configured path.
ConfigFiles ==
  {"valid", "missing", "not_a_mapping", "no_master", "master_lacks_host",
   "no_children", "child_lacks_password", "malformed_yaml",
   "non_numeric_minutes", "master_not_a_mapping"}

\* load_config: "ok", or the exception it raises.  Only the checks of
\* load_config and _parse_instance raise ConfigError; yaml.safe_load raises
\* YAMLError on malformed content, int() raises ValueError on a value that is
\* no number, and indexing a master section that is a scalar raises TypeError.
load_config(file) ==
  CASE file = "valid" -> "ok"
    [] file = "missing" -> "ConfigError"
    [] file = "malformed_yaml" -> "YAMLError"
    [] file = "not_a_mapping" -> "ConfigError"
    [] file = "no_master" -> "ConfigError"
    [] file = "master_lacks_host" -> "ConfigError"
    [] file = "master_not_a_mapping" -> "TypeError"
    [] file = "no_children" -> "ConfigError"
    [] file = "child_lacks_password" -> "ConfigError"
    [] file = "non_numeric_minutes" -> "ValueError"

\* ------------------------------------------------------------ initial state

ZeroCounts ==
  [deleted |-> 0, added |-> 0, recategorized |-> 0, relocated |-> 0,
   file_synced |-> 0]

\* Master torrents: seeding, moved and partly deselected, stopped by the
\* operator, and not yet seeded for long enough.
M_Seeding ==
  Torrent("uploading", 100, min_seed_secs, "/a", "", "x", AllSelected)

M_Moved ==
  Torrent("stalledUP", 100, min_seed_secs + 1, "/b", "/t", "y", SecondDeselected)

M_Stopped ==
  Torrent("pausedUP", 100, min_seed_secs, "/a", "", "x", AllSelected)

M_Young ==
  Torrent("uploading", 100, min_seed_secs - 1, "/a", "", "x", AllSelected)

\* Child torrents: mirroring M_Seeding, mirroring M_Moved, errored, and
\* without progress.
C_Seeding == Torrent("stalledUP", 100, 0, "/a", "", "x", AllSelected)

C_Moved == Torrent("stalledUP", 100, 0, "/b", "/t", "y", SecondDeselected)

C_Error == Torrent("error", 100, 0, "/a", "", "x", AllSelected)

C_NoProgress == Torrent("downloading", 0, 0, "/a", "", "x", AllSelected)

Absent == Torrent("absent", 0, 0, "", "", "", <<>>)

\* The instance holding the torrents a choice (hash -> torrent or Absent) names.
Instance(choice) ==
  [h \in {k \in DOMAIN choice : choice[k] # Absent} |-> choice[h]]

\* The torrents the instances start with.  Hash h1 is the torrent whose
\* attributes vary; h2 is a plain second torrent, so that a category of a
\* diff can hold two entries.
MasterChoices ==
  [h1 : {Absent, M_Moved, M_Stopped, M_Young}, h2 : {Absent, M_Seeding}]

FirstChildChoices ==
  [h1 : {Absent, C_Seeding, C_Moved, C_Error, C_NoProgress},
   h2 : {Absent, C_Seeding}]

OtherChildChoices == [h1 : {Absent, C_Seeding}, h2 : {Absent}]

Orders == {<<"h1", "h2">>, <<"h2", "h1">>}

\* treat_stopped_as_removed is only ever read for a torrent in a paused
\* state, so it is varied only when the master holds one; the iteration
\* order matters only to an instance that holds both hashes.
Init ==
  /\ \E m \in MasterChoices : master = Instance(m)
  /\ \E a \in FirstChildChoices, b \in OtherChildChoices :
       child = [c \in Range(children) |->
                  IF c = children[1] THEN Instance(a) ELSE Instance(b)]
  /\ dry_run \in BOOLEAN
  /\ sync_files \in BOOLEAN
  /\ treat_stopped \in BOOLEAN
  /\ treat_stopped =>
       \E h \in DOMAIN master : lower(master[h].state) \in PAUSED_STATES
  /\ hashOrder \in Orders
  /\ hashOrder # <<"h1", "h2">> =>
       \E inst \in {master} \cup {child[c] : c \in Range(children)} :
         DOMAIN inst = Hashes
  /\ paused = [c \in Range(children) |-> {}]
  /\ pc = "load"
  /\ ci = 1
  /\ master_torrents = EmptyMap
  /\ child_torrents = EmptyMap
  /\ diff = EmptyDiff
  /\ queue = <<>>
  /\ needed = <<>>
  /\ visited = {}
  /\ counts = ZeroCounts
  /\ calls = <<>>
  /\ trace = <<>>
  /\ result = "none"
  /\ reload_failed = FALSE
  /\ fails = 0

\* ------------------------------------------------------------- daemon loop

envvars == <<master, child, paused>>

cyclevars ==
  <<ci, master_torrents, child_torrents, diff, queue, needed, visited, counts,
    calls, trace, result>>

\* A variant of after_load in which a ConfigError on reload is only logged
\* and the iteration goes on to its sync cycle.
after_load_keeping_config(r) ==
  CASE r = "ok" -> "start"
    [] r = "ConfigError" -> "start"
    [] OTHER -> "exited"

\* cli.py:93-96 and 81-83: where the loop goes after load_config.  A
\* ConfigError is logged and the loop sleeps 60 s and tries again; any other
\* exception leaves _run_daemon and main exits with status 1.
after_load(r) ==
  CASE r = "ok" -> "start"
    [] r = "ConfigError" -> "retry_sleep"
    [] OTHER -> "exited"

\* cli.py:91-92: reload the configuration.
LoadConfig ==
  /\ pc = "load"
  /\ \E file \in ConfigFiles :
       LET r == load_config(file)
       IN  /\ reload_failed' = (r # "ok")
           /\ pc' = after_load(r)
  /\ UNCHANGED <<cfgvars, envvars, cyclevars, fails>>

\* cli.py:95-96: time.sleep(60); continue.
RetrySleep ==
  /\ pc = "retry_sleep"
  /\ pc' = "load"
  /\ UNCHANGED <<cfgvars, envvars, cyclevars, reload_failed, fails>>

\* The locals of run_sync and the cycle's logs, as a cycle finds them.
ResetLocals ==
  /\ ci' = 1
  /\ master_torrents' = EmptyMap
  /\ child_torrents' = EmptyMap
  /\ diff' = EmptyDiff
  /\ queue' = <<>>
  /\ needed' = <<>>
  /\ visited' = {}
  /\ counts' = ZeroCounts
  /\ calls' = <<>>
  /\ trace' = <<>>

ResetCycle == ResetLocals /\ result' = "none"

\* cli.py:98-109 and sync.py:534-540: a cycle starts.
StartSync ==
  /\ pc = "start"
  /\ pc' = "pre_connect"
  /\ ResetCycle
  /\ UNCHANGED <<cfgvars, envvars, reload_failed, fails>>

\* cli.py:112-122: run_sync returned, or raised an Exception that is logged;
\* either way the loop sleeps for the interval and goes round again.  The
\* record of the finished cycle is closed here; how it ended is kept.
SleepInterval ==
  /\ pc = "after_sync"
  /\ pc' = "load"
  /\ ResetLocals
  /\ UNCHANGED <<cfgvars, envvars, result, reload_failed, fails>>

RunSyncPcs ==
  {"pre_connect", "pre_clean", "pre_delete", "m_connect", "m_fetch", "m_files",
   "c_connect", "c_fetch", "c_diff", "c_filter", "c_report", "a_delete",
   "a_add", "a_add_files", "a_add_submit", "a_add_prio", "a_add_resume",
   "a_recat", "a_reloc", "a_reloc_save", "a_reloc_dl", "a_reloc_resume",
   "a_fsync", "a_fsync_push", "c_done"}

DaemonPcs == {"load", "retry_sleep", "start", "after_sync"}

\* cli.py:110-111 and 78-80: Ctrl+C, during a sleep or inside a cycle, ends
\* the process with status 130; the locals of the cycle are gone with it.
Interrupt ==
  /\ pc \in DaemonPcs \cup RunSyncPcs
  /\ pc' = "interrupted"
  /\ ResetCycle
  /\ UNCHANGED <<cfgvars, envvars, reload_failed, fails>>

\* ------------------------------------------------ run_sync: shared pieces

\* cfg.children[ci].name
cname == children[ci]

\* A client call may raise while the failure budget lasts.
CanFail == fails < MaxFailures

\* A call is logged with the function that issued it.
Log(c) ==
  calls' = Append(calls, [cl |-> c.cl, op |-> c.op, hs |-> c.hs, arg |-> c.arg,
                          res |-> c.res, by |-> caller(pc)])

\* A stage is logged with its instance and the number of calls before it.
Stage(name, who) == trace' = Append(trace, <<name, who, Len(calls)>>)

\* A variant of Raise in which the exception is not caught by the loop.
RaiseEndsDaemon == pc' = "exited" /\ result' = "raised"

\* An exception leaves run_sync: _run_daemon logs it (cli.py:112-113).
Raise == pc' = "after_sync" /\ result' = "raised"

\* A variant of PreNext in which the pre-sync loop ends after its first child.
PreNextFirstChildOnly == ci' = ci /\ pc' = "m_connect"

\* The pre-sync loop moves to its next child, or on to the master.
PreNext ==
  IF ci < NumChildren
  THEN ci' = ci + 1 /\ pc' = "pre_connect"
  ELSE ci' = ci /\ pc' = "m_connect"

\* The main loop moves to its next child, or run_sync returns.
ChildNext ==
  IF ci < NumChildren
  THEN ci' = ci + 1 /\ pc' = "c_connect" /\ result' = result
  ELSE ci' = ci /\ pc' = "after_sync" /\ result' = "returned"

Visit(cat, hs) == visited' = visited \cup {<<cat, h>> : h \in hs}

\* A variant of category_after in which the recategorizations come before
\* the adds.
category_after_recat_first(p, sf) ==
  CASE p = "a_delete" -> "a_recat"
    [] p = "a_recat" -> "a_add"
    [] p = "a_add" -> "a_reloc"
    [] p = "a_reloc" -> IF sf THEN "a_fsync" ELSE "c_done"
    [] p = "a_fsync" -> "c_done"

\* sync.py:595-599: the order in which run_sync calls the apply functions;
\* the file-selection sync is called only when enabled.
category_after(p, sf) ==
  CASE p = "a_delete" -> "a_add"
    [] p = "a_add" -> "a_recat"
    [] p = "a_recat" -> "a_reloc"
    [] p = "a_reloc" -> IF sf THEN "a_fsync" ELSE "c_done"
    [] p = "a_fsync" -> "c_done"

\* The list of the diff each apply function is given.
entries_of(d, p) ==
  CASE p = "a_add" -> d.to_add
    [] p = "a_recat" -> d.to_recategorize
    [] p = "a_reloc" -> d.to_relocate
    [] p = "a_fsync" -> d.to_sync_files
    [] OTHER -> <<>>

\* An apply function returns and the next one is called.
NextCategory(p) ==
  /\ pc' = category_after(p, sync_files)
  /\ queue' = entries_of(diff, pc')

\* A variant of OnMasterConnectFailure in which the failure is swallowed.
MasterConnectFailureIgnored == pc' = "m_fetch" /\ result' = result

\* A variant of OnChildConnectFailure in which the failure is re-raised.
ChildConnectFailureRaises == Raise /\ ci' = ci

\* sync.py:557-559: a master that cannot be reached is logged and re-raised.
OnMasterConnectFailure == Raise

\* sync.py:580-582: a child that cannot be reached is logged and skipped.
OnChildConnectFailure == ChildNext

\* sync.py:544-550: a child that cannot be reached is not cleaned.
OnCleanupConnectFailure == PreNext

\* ------------------------------------------- run_sync: pre-sync cleanup

\* sync.py:540-550: connect to the child; a failure skips its cleanup.
PreConnect ==
  /\ pc = "pre_connect"
  /\ Stage("PRE_CONNECT", cname)
  /\ \/ /\ Log(Call(cname, "auth_log_in", {}, NoArg, "ok"))
        /\ pc' = "pre_clean"
        /\ UNCHANGED <<ci, fails>>
     \/ /\ CanFail
        /\ fails' = fails + 1
        /\ Log(Call(cname, "auth_log_in", {}, NoArg, "raised"))
        /\ OnCleanupConnectFailure
  /\ UNCHANGED <<cfgvars, envvars, master_torrents, child_torrents, diff, queue,
                 needed, visited, counts, result, reload_failed>>

\* sync.py:501-519: with nothing flagged, or in dry-run mode, the cleaner
\* returns before its delete.
skip_cleanup(rm, dry) == rm = {} \/ dry

\* sync.py:486-519: list the child's torrents and flag the stale ones.
CleanupList ==
  /\ pc = "pre_clean"
  /\ Stage("CLEAN_STALE", cname)
  /\ \/ /\ Log(Call(cname, "torrents_info", {}, NoArg, "ok"))
        /\ LET rm == to_remove(child[cname])
           IN  IF skip_cleanup(rm, dry_run)
               THEN PreNext /\ queue' = queue
               ELSE pc' = "pre_delete" /\ ci' = ci
                    /\ queue' = InOrder(hashOrder, rm)
        /\ UNCHANGED <<fails, result>>
     \/ /\ CanFail
        /\ fails' = fails + 1
        /\ Log(Call(cname, "torrents_info", {}, NoArg, "raised"))
        /\ Raise
        /\ UNCHANGED <<ci, queue>>
  /\ UNCHANGED <<cfgvars, envvars, master_torrents, child_torrents, diff,
                 needed, visited, counts, reload_failed>>

\* sync.py:521-527: delete the flagged torrents, keeping their files.
CleanupDelete ==
  /\ pc = "pre_delete"
  /\ \/ /\ Log(Call(cname, "torrents_delete", Range(queue),
                    cleanup_delete_kwargs, "ok"))
        /\ child' = [child EXCEPT ![cname] = client_delete(@, Range(queue))]
        /\ paused' = [paused EXCEPT ![cname] = @ \ Range(queue)]
        /\ PreNext
        /\ UNCHANGED <<fails, result>>
     \/ /\ CanFail
        /\ fails' = fails + 1
        /\ Log(Call(cname, "torrents_delete", Range(queue),
                    cleanup_delete_kwargs, "raised"))
        /\ Raise
        /\ UNCHANGED <<ci, child, paused>>
  /\ queue' = <<>>
  /\ UNCHANGED <<cfgvars, master, master_torrents, child_torrents, diff,
                 needed, visited, counts, trace, reload_failed>>

\* ----------------------------------------------------- run_sync: master

\* sync.py:554-559: connect to the master; a failure is raised to the caller.
ConnectMaster ==
  /\ pc = "m_connect"
  /\ Stage("CONNECT_MASTER", MASTER)
  /\ \/ /\ Log(Call(MASTER, "auth_log_in", {}, NoArg, "ok"))
        /\ pc' = "m_fetch"
        /\ UNCHANGED <<fails, result>>
     \/ /\ CanFail
        /\ fails' = fails + 1
        /\ Log(Call(MASTER, "auth_log_in", {}, NoArg, "raised"))
        /\ OnMasterConnectFailure
  /\ UNCHANGED <<cfgvars, envvars, ci, master_torrents, child_torrents, diff,
                 queue, needed, visited, counts, reload_failed>>

\* sync.py:563-567 and 94-124: list the master's torrents and keep the
\* eligible ones.
FetchMasterInfo ==
  /\ pc = "m_fetch"
  /\ Stage("FETCH_MASTER", MASTER)
  /\ \/ /\ Log(Call(MASTER, "torrents_info", {}, NoArg, "ok"))
        /\ master_torrents' =
             fetch_master_torrents(master, min_seed_secs, treat_stopped)
        /\ IF sync_files
           THEN pc' = "m_files" /\ ci' = ci
                /\ queue' = InOrder(hashOrder, DOMAIN master_torrents')
           ELSE pc' = "c_connect" /\ ci' = 1 /\ queue' = <<>>
        /\ UNCHANGED <<fails, result>>
     \/ /\ CanFail
        /\ fails' = fails + 1
        /\ Log(Call(MASTER, "torrents_info", {}, NoArg, "raised"))
        /\ Raise
        /\ UNCHANGED <<ci, master_torrents, queue>>
  /\ UNCHANGED <<cfgvars, envvars, child_torrents, diff, needed, visited,
                 counts, reload_failed>>

\* sync.py:129-135: load one entry's file priorities; a failure leaves None.
FetchMasterFiles ==
  /\ pc = "m_files"
  /\ queue # <<>>
  /\ LET h == Head(queue)
     IN  \/ /\ Log(Call(MASTER, "torrents_files", {h}, NoArg, "ok"))
            /\ master_torrents' =
                 [master_torrents EXCEPT
                    ![h].file_priorities = Loaded(master[h].prios)]
            /\ UNCHANGED fails
         \/ /\ CanFail
            /\ fails' = fails + 1
            /\ Log(Call(MASTER, "torrents_files", {h}, NoArg, "raised"))
            /\ UNCHANGED master_torrents
  /\ queue' = Tail(queue)
  /\ UNCHANGED <<cfgvars, envvars, pc, ci, child_torrents, diff, needed,
                 visited, counts, trace, result, reload_failed>>

\* sync.py:144 and 576: the master snapshot is complete.
FetchMasterDone ==
  /\ pc = "m_files"
  /\ queue = <<>>
  /\ pc' = "c_connect"
  /\ ci' = 1
  /\ UNCHANGED <<cfgvars, envvars, master_torrents, child_torrents, diff, queue,
                 needed, visited, counts, calls, trace, result, reload_failed,
                 fails>>


\* ------------------------------------------- run_sync: per child, to the diff

\* sync.py:578-582: connect to the child; a failure skips the child.
ChildConnect ==
  /\ pc = "c_connect"
  /\ Stage("CONNECT_CHILD", cname)
  /\ \/ /\ Log(Call(cname, "auth_log_in", {}, NoArg, "ok"))
        /\ pc' = "c_fetch"
        /\ UNCHANGED <<ci, fails, result>>
     \/ /\ CanFail
        /\ fails' = fails + 1
        /\ Log(Call(cname, "auth_log_in", {}, NoArg, "raised"))
        /\ OnChildConnectFailure
  /\ UNCHANGED <<cfgvars, envvars, master_torrents, child_torrents, diff, queue,
                 needed, visited, counts, reload_failed>>

\* sync.py:584-585: snapshot the child's torrents.
ChildFetch ==
  /\ pc = "c_fetch"
  /\ Stage("FETCH_CHILD", cname)
  /\ \/ /\ Log(Call(cname, "torrents_info", {}, NoArg, "ok"))
        /\ child_torrents' = fetch_child_torrents(child[cname])
        /\ pc' = "c_diff"
        /\ UNCHANGED <<fails, result>>
     \/ /\ CanFail
        /\ fails' = fails + 1
        /\ Log(Call(cname, "torrents_info", {}, NoArg, "raised"))
        /\ Raise
        /\ UNCHANGED child_torrents
  /\ UNCHANGED <<cfgvars, envvars, ci, master_torrents, diff, queue, needed,
                 visited, counts, reload_failed>>

\* sync.py:587-589: the diff of the master snapshot against the child's.
ComputeDiff ==
  /\ pc = "c_diff"
  /\ Stage("DIFF", cname)
  /\ diff' = compute_diff(master_torrents, child_torrents, hashOrder)
  /\ IF sync_files
     THEN pc' = "c_filter" /\ queue' = diff'.to_sync_files
     ELSE pc' = "c_report" /\ queue' = <<>>
  /\ needed' = <<>>
  /\ UNCHANGED <<cfgvars, envvars, ci, master_torrents, child_torrents, visited,
                 counts, calls, result, reload_failed, fails>>

\* sync.py:349-362: narrow one file-sync candidate against the child's own
\* file priorities; a candidate whose files cannot be fetched is kept.
FilterStep ==
  /\ pc = "c_filter"
  /\ queue # <<>>
  /\ LET h == Head(queue)
         fp == master_torrents[h].file_priorities
     IN  IF ~truthy(fp)
         THEN UNCHANGED <<needed, calls, fails>>
         ELSE \/ /\ Log(Call(cname, "torrents_files", {h}, NoArg, "ok"))
                 /\ needed' = IF has_diff(fp.list, files_of(child[cname], h))
                              THEN Append(needed, h)
                              ELSE needed
                 /\ UNCHANGED fails
              \/ /\ CanFail
                 /\ fails' = fails + 1
                 /\ Log(Call(cname, "torrents_files", {h}, NoArg, "raised"))
                 /\ needed' = Append(needed, h)
  /\ queue' = Tail(queue)
  /\ UNCHANGED <<cfgvars, envvars, pc, ci, master_torrents, child_torrents,
                 diff, visited, counts, trace, result, reload_failed>>

\* sync.py:363 and 589: the narrowed list replaces diff.to_sync_files.
FilterDone ==
  /\ pc = "c_filter"
  /\ queue = <<>>
  /\ diff' = [diff EXCEPT !.to_sync_files = needed]
  /\ pc' = "c_report"
  /\ UNCHANGED <<cfgvars, envvars, ci, master_torrents, child_torrents, queue,
                 needed, visited, counts, calls, trace, result, reload_failed,
                 fails>>

\* A variant of skip_apply that does not look at the dry-run flag.
skip_apply_ignoring_dry_run(dry, d) == is_empty(d)

\* sync.py:592: no apply in dry-run mode or for an empty diff.
skip_apply(dry, d) == dry \/ is_empty(d)

\* sync.py:590-593: print the summary; the child is done, or the apply starts.
Report ==
  /\ pc = "c_report"
  /\ IF skip_apply(dry_run, diff)
     THEN /\ Stage("REPORT", cname)
          /\ ChildNext
     ELSE /\ trace' = trace \o <<<<"REPORT", cname, Len(calls)>>,
                                  <<"APPLY", cname, Len(calls)>>>>
          /\ pc' = "a_delete"
          /\ UNCHANGED <<ci, result>>
  /\ visited' = {}
  /\ counts' = ZeroCounts
  /\ UNCHANGED <<cfgvars, envvars, master_torrents, child_torrents, diff, queue,
                 needed, calls, reload_failed, fails>>

\* ------------------------------------------------------ run_sync: the apply

\* sync.py:191-201 and 595: one batched delete, files kept; it is not
\* wrapped, so a failure leaves run_sync.
ApplyDeletes ==
  /\ pc = "a_delete"
  /\ LET hs == Range(diff.to_delete)
     IN  IF diff.to_delete = <<>>
         THEN /\ NextCategory("a_delete")
              /\ UNCHANGED <<child, paused, counts, visited, calls, fails, result>>
         ELSE /\ Visit("delete", hs)
              /\ \/ /\ Log(Call(cname, "torrents_delete", hs,
                                apply_delete_kwargs, "ok"))
                    /\ child' = [child EXCEPT ![cname] = client_delete(@, hs)]
                    /\ paused' = [paused EXCEPT ![cname] = @ \ hs]
                    /\ counts' = [counts EXCEPT !.deleted = Len(diff.to_delete)]
                    /\ NextCategory("a_delete")
                    /\ UNCHANGED <<fails, result>>
                 \/ /\ CanFail
                    /\ fails' = fails + 1
                    /\ Log(Call(cname, "torrents_delete", hs,
                                apply_delete_kwargs, "raised"))
                    /\ Raise
                    /\ UNCHANGED <<child, paused, counts, queue>>
  /\ UNCHANGED <<cfgvars, master, ci, master_torrents, child_torrents, diff,
                 needed, trace, reload_failed>>

\* sync.py:212-216: export the torrent from the master; a failure skips it.
AddExport ==
  /\ pc = "a_add"
  /\ queue # <<>>
  /\ LET h == Head(queue)
     IN  /\ Visit("add", {h})
         /\ \/ /\ Log(Call(MASTER, "torrents_export", {h}, NoArg, "ok"))
               /\ pc' = IF ~master_torrents[h].file_priorities.loaded
                        THEN "a_add_files"
                        ELSE "a_add_submit"
               /\ UNCHANGED <<queue, fails>>
            \/ /\ CanFail
               /\ fails' = fails + 1
               /\ Log(Call(MASTER, "torrents_export", {h}, NoArg, "raised"))
               /\ queue' = Tail(queue)
               /\ pc' = "a_add"
  /\ UNCHANGED <<cfgvars, envvars, ci, master_torrents, child_torrents, diff,
                 needed, counts, trace, result, reload_failed>>

\* sync.py:218-223: the entry's file priorities were never loaded: fetch
\* them from the master and store them in the entry; a failure leaves None.
AddFetchFiles ==
  /\ pc = "a_add_files"
  /\ LET h == Head(queue)
     IN  \/ /\ Log(Call(MASTER, "torrents_files", {h}, NoArg, "ok"))
            /\ master_torrents' =
                 [master_torrents EXCEPT
                    ![h].file_priorities = Loaded(master[h].prios)]
            /\ UNCHANGED fails
         \/ /\ CanFail
            /\ fails' = fails + 1
            /\ Log(Call(MASTER, "torrents_files", {h}, NoArg, "raised"))
            /\ UNCHANGED master_torrents
  /\ pc' = "a_add_submit"
  /\ UNCHANGED <<cfgvars, envvars, ci, child_torrents, diff, queue, needed,
                 visited, counts, trace, result, reload_failed>>

\* has_deselected of _apply_adds (sync.py:225-227).
has_deselected(entry) ==
  truthy(entry.file_priorities) /\ any_zero(entry.file_priorities.list)

\* A variant of add_client that submits the add to the master.
add_client_master == MASTER

\* The client _apply_adds submits the add to (sync.py:241): the child's.
add_client == cname

\* add_kwargs of _apply_adds (sync.py:229-238).
add_kwargs(entry) ==
  [save_path |-> entry.save_path,
   category |-> entry.category,
   use_auto_torrent_management |-> FALSE,
   is_paused |-> has_deselected(entry),
   has_download_path |-> entry.download_path # "",
   download_path |-> entry.download_path]

\* A variant of after_add that treats a conflict as a successful add.
after_add_conflict_as_added(res, deselected) ==
  IF res \in {"ok", "conflict"} /\ deselected THEN "a_add_prio" ELSE "a_add"

\* sync.py:250-257: where _apply_adds goes after torrents_add: on to the
\* priority push of a torrent added with deselected files, else on to the
\* next entry (the handlers of a conflict and of any other exception
\* continue the loop).
after_add(res, deselected) ==
  IF res = "ok" /\ deselected THEN "a_add_prio" ELSE "a_add"

\* sync.py:240-255: submit the add; a conflict or any other failure skips
\* the torrent.
AddSubmit ==
  /\ pc = "a_add_submit"
  /\ LET h == Head(queue)
         entry == master_torrents[h]
         kw == add_kwargs(entry)
     IN  \/ /\ Log(Call(add_client, "torrents_add", {h}, kw, "ok"))
            /\ child' = [child EXCEPT ![cname] = client_add(@, h, kw)]
            /\ paused' = [paused EXCEPT ![cname] =
                            IF kw.is_paused THEN @ \cup {h} ELSE @ \ {h}]
            /\ counts' = [counts EXCEPT !.added = @ + 1]
            /\ pc' = after_add("ok", has_deselected(entry))
            /\ UNCHANGED fails
         \/ /\ CanFail
            /\ fails' = fails + 1
            /\ \E res \in {"conflict", "raised"} :
                 /\ Log(Call(add_client, "torrents_add", {h}, kw, res))
                 /\ pc' = after_add(res, has_deselected(entry))
            /\ UNCHANGED <<child, paused, counts>>
  /\ queue' = IF pc' = "a_add" THEN Tail(queue) ELSE queue
  /\ UNCHANGED <<cfgvars, master, ci, master_torrents, child_torrents, diff,
                 needed, visited, trace, result, reload_failed>>

\* sync.py:257-274: push priority zero to the deselected files; a failure
\* is logged.
AddPushPriority ==
  /\ pc = "a_add_prio"
  /\ LET h == Head(queue)
         ids == deselected_ids(master_torrents[h].file_priorities.list)
         arg == [file_ids |-> ids, priority |-> 0]
     IN  \/ /\ Log(Call(cname, "torrents_file_priority", {h}, arg, "ok"))
            /\ child' = [child EXCEPT ![cname] =
                           client_file_priority(@, h, ids, 0)]
            /\ UNCHANGED fails
         \/ /\ CanFail
            /\ fails' = fails + 1
            /\ Log(Call(cname, "torrents_file_priority", {h}, arg, "raised"))
            /\ UNCHANGED child
  /\ pc' = "a_add_resume"
  /\ UNCHANGED <<cfgvars, master, paused, ci, master_torrents, child_torrents,
                 diff, queue, needed, visited, counts, trace, result,
                 reload_failed>>

\* sync.py:275: resume the torrent; the call is outside every try block, so
\* a failure leaves run_sync.
AddResume ==
  /\ pc = "a_add_resume"
  /\ LET h == Head(queue)
     IN  \/ /\ Log(Call(cname, "torrents_resume", {h}, NoArg, "ok"))
            /\ paused' = [paused EXCEPT ![cname] = @ \ {h}]
            /\ pc' = "a_add"
            /\ UNCHANGED <<fails, result>>
         \/ /\ CanFail
            /\ fails' = fails + 1
            /\ Log(Call(cname, "torrents_resume", {h}, NoArg, "raised"))
            /\ Raise
            /\ UNCHANGED paused
  /\ queue' = Tail(queue)
  /\ UNCHANGED <<cfgvars, master, child, ci, master_torrents, child_torrents,
                 diff, needed, visited, counts, trace, reload_failed>>

\* sync.py:277 and 597: every entry to add has been visited.
AddsDone ==
  /\ pc = "a_add"
  /\ queue = <<>>
  /\ NextCategory("a_add")
  /\ UNCHANGED <<cfgvars, envvars, ci, master_torrents, child_torrents, diff,
                 needed, visited, counts, calls, trace, result, reload_failed,
                 fails>>


\* sync.py:285-303: set the child's category to the master's; a failure is
\* logged and the loop goes on.
Recategorize ==
  /\ pc = "a_recat"
  /\ queue # <<>>
  /\ LET h == Head(queue)
         category == master_torrents[h].category
     IN  /\ Visit("recategorize", {h})
         /\ \/ /\ Log(Call(cname, "torrents_set_category", {h},
                           [category |-> category], "ok"))
               /\ child' = [child EXCEPT ![cname] =
                              client_set_category(@, h, category)]
               /\ counts' = [counts EXCEPT !.recategorized = @ + 1]
               /\ UNCHANGED fails
            \/ /\ CanFail
               /\ fails' = fails + 1
               /\ Log(Call(cname, "torrents_set_category", {h},
                           [category |-> category], "raised"))
               /\ UNCHANGED <<child, counts>>
  /\ queue' = Tail(queue)
  /\ UNCHANGED <<cfgvars, master, paused, pc, ci, master_torrents,
                 child_torrents, diff, needed, trace, result, reload_failed>>

\* sync.py:304 and 598
RecategorizeDone ==
  /\ pc = "a_recat"
  /\ queue = <<>>
  /\ NextCategory("a_recat")
  /\ UNCHANGED <<cfgvars, envvars, ci, master_torrents, child_torrents, diff,
                 needed, visited, counts, calls, trace, result, reload_failed,
                 fails>>

\* The comparisons of _apply_relocates use the child entry of the snapshot.
save_differs(h) == master_torrents[h].save_path # child_torrents[h].save_path

dl_differs(h) ==
  master_torrents[h].download_path # child_torrents[h].download_path

\* Where _apply_relocates goes after the pause, and after the save path.
AfterPause(h) ==
  IF save_differs(h) THEN "a_reloc_save"
  ELSE IF dl_differs(h) THEN "a_reloc_dl" ELSE "a_reloc_resume"

\* A variant of AfterSavePath that never sets the download path.
AfterSavePathSkippingDownloadPath(h) == "a_reloc_resume"

AfterSavePath(h) == IF dl_differs(h) THEN "a_reloc_dl" ELSE "a_reloc_resume"

\* sync.py:313-315, 338-339: pause the torrent; a failure skips it.
RelocatePause ==
  /\ pc = "a_reloc"
  /\ queue # <<>>
  /\ LET h == Head(queue)
     IN  /\ Visit("relocate", {h})
         /\ \/ /\ Log(Call(cname, "torrents_pause", {h}, NoArg, "ok"))
               /\ paused' = [paused EXCEPT ![cname] =
                               IF h \in DOMAIN child[cname] THEN @ \cup {h} ELSE @]
               /\ pc' = AfterPause(h)
               /\ UNCHANGED <<queue, fails>>
            \/ /\ CanFail
               /\ fails' = fails + 1
               /\ Log(Call(cname, "torrents_pause", {h}, NoArg, "raised"))
               /\ queue' = Tail(queue)
               /\ UNCHANGED <<pc, paused>>
  /\ UNCHANGED <<cfgvars, master, child, ci, master_torrents, child_torrents,
                 diff, needed, counts, trace, result, reload_failed>>

\* sync.py:317-321: set the save path; a failure abandons the torrent, paused.
RelocateSetSavePath ==
  /\ pc = "a_reloc_save"
  /\ LET h == Head(queue)
         save_path == master_torrents[h].save_path
     IN  \/ /\ Log(Call(cname, "torrents_set_save_path", {h},
                        [save_path |-> save_path], "ok"))
            /\ child' = [child EXCEPT ![cname] =
                           client_set_save_path(@, h, save_path)]
            /\ pc' = AfterSavePath(h)
            /\ UNCHANGED <<queue, fails>>
         \/ /\ CanFail
            /\ fails' = fails + 1
            /\ Log(Call(cname, "torrents_set_save_path", {h},
                        [save_path |-> save_path], "raised"))
            /\ pc' = "a_reloc"
            /\ queue' = Tail(queue)
            /\ UNCHANGED child
  /\ UNCHANGED <<cfgvars, master, paused, ci, master_torrents, child_torrents,
                 diff, needed, visited, counts, trace, result, reload_failed>>

\* sync.py:323-327: set the download path.
RelocateSetDownloadPath ==
  /\ pc = "a_reloc_dl"
  /\ LET h == Head(queue)
         download_path == master_torrents[h].download_path
     IN  \/ /\ Log(Call(cname, "torrents_set_download_path", {h},
                        [download_path |-> download_path], "ok"))
            /\ child' = [child EXCEPT ![cname] =
                           client_set_download_path(@, h, download_path)]
            /\ pc' = "a_reloc_resume"
            /\ UNCHANGED <<queue, fails>>
         \/ /\ CanFail
            /\ fails' = fails + 1
            /\ Log(Call(cname, "torrents_set_download_path", {h},
                        [download_path |-> download_path], "raised"))
            /\ pc' = "a_reloc"
            /\ queue' = Tail(queue)
            /\ UNCHANGED child
  /\ UNCHANGED <<cfgvars, master, paused, ci, master_torrents, child_torrents,
                 diff, needed, visited, counts, trace, result, reload_failed>>

\* sync.py:329-337: resume the torrent and count it as relocated.
RelocateResume ==
  /\ pc = "a_reloc_resume"
  /\ LET h == Head(queue)
     IN  \/ /\ Log(Call(cname, "torrents_resume", {h}, NoArg, "ok"))
            /\ paused' = [paused EXCEPT ![cname] = @ \ {h}]
            /\ counts' = [counts EXCEPT !.relocated = @ + 1]
            /\ UNCHANGED fails
         \/ /\ CanFail
            /\ fails' = fails + 1
            /\ Log(Call(cname, "torrents_resume", {h}, NoArg, "raised"))
            /\ UNCHANGED <<paused, counts>>
  /\ pc' = "a_reloc"
  /\ queue' = Tail(queue)
  /\ UNCHANGED <<cfgvars, master, child, ci, master_torrents, child_torrents,
                 diff, needed, visited, trace, result, reload_failed>>

\* sync.py:340 and 599: the file-selection sync runs only when enabled.
RelocateDone ==
  /\ pc = "a_reloc"
  /\ queue = <<>>
  /\ NextCategory("a_reloc")
  /\ UNCHANGED <<cfgvars, envvars, ci, master_torrents, child_torrents, diff,
                 needed, visited, counts, calls, trace, result, reload_failed,
                 fails>>

\* sync.py:372-391: fetch the child's file list and compute the ids to
\* deselect; a failed fetch or an empty id list skips the entry.
FileSyncFetch ==
  /\ pc = "a_fsync"
  /\ queue # <<>>
  /\ LET h == Head(queue)
         fp == master_torrents[h].file_priorities
     IN  /\ Visit("sync_files", {h})
         /\ IF ~truthy(fp)
            THEN /\ queue' = Tail(queue)
                 /\ UNCHANGED <<pc, calls, fails>>
            ELSE \/ /\ Log(Call(cname, "torrents_files", {h}, NoArg, "ok"))
                    /\ IF ids_to_deselect(fp.list, files_of(child[cname], h)) = {}
                       THEN pc' = pc /\ queue' = Tail(queue)
                       ELSE pc' = "a_fsync_push" /\ queue' = queue
                    /\ UNCHANGED fails
                 \/ /\ CanFail
                    /\ fails' = fails + 1
                    /\ Log(Call(cname, "torrents_files", {h}, NoArg, "raised"))
                    /\ queue' = Tail(queue)
                    /\ UNCHANGED pc
  /\ UNCHANGED <<cfgvars, envvars, ci, master_torrents, child_torrents, diff,
                 needed, counts, trace, result, reload_failed>>

\* sync.py:393-410: push priority zero for exactly the computed ids.
FileSyncPush ==
  /\ pc = "a_fsync_push"
  /\ LET h == Head(queue)
         ids == ids_to_deselect(master_torrents[h].file_priorities.list,
                                files_of(child[cname], h))
         arg == [file_ids |-> ids, priority |-> 0]
     IN  \/ /\ Log(Call(cname, "torrents_file_priority", {h}, arg, "ok"))
            /\ child' = [child EXCEPT ![cname] =
                           client_file_priority(@, h, ids, 0)]
            /\ counts' = [counts EXCEPT !.file_synced = @ + 1]
            /\ UNCHANGED fails
         \/ /\ CanFail
            /\ fails' = fails + 1
            /\ Log(Call(cname, "torrents_file_priority", {h}, arg, "raised"))
            /\ UNCHANGED <<child, counts>>
  /\ pc' = "a_fsync"
  /\ queue' = Tail(queue)
  /\ UNCHANGED <<cfgvars, master, paused, ci, master_torrents, child_torrents,
                 diff, needed, visited, trace, result, reload_failed>>

\* sync.py:411
FileSyncDone ==
  /\ pc = "a_fsync"
  /\ queue = <<>>
  /\ NextCategory("a_fsync")
  /\ UNCHANGED <<cfgvars, envvars, ci, master_torrents, child_torrents, diff,
                 needed, visited, counts, calls, trace, result, reload_failed,
                 fails>>

\* sync.py:601-605: print the counts; on to the next child.
ChildDone ==
  /\ pc = "c_done"
  /\ ChildNext
  /\ UNCHANGED <<cfgvars, envvars, master_torrents, child_torrents, diff, queue,
                 needed, visited, counts, calls, trace, reload_failed, fails>>

\* ------------------------------------------------------------ specification

Next ==
  \/ LoadConfig
  \/ RetrySleep
  \/ StartSync
  \/ SleepInterval
  \/ Interrupt
  \/ PreConnect
  \/ CleanupList
  \/ CleanupDelete
  \/ ConnectMaster
  \/ FetchMasterInfo
  \/ FetchMasterFiles
  \/ FetchMasterDone
  \/ ChildConnect
  \/ ChildFetch
  \/ ComputeDiff
  \/ FilterStep
  \/ FilterDone
  \/ Report
  \/ ApplyDeletes
  \/ AddExport
  \/ AddFetchFiles
  \/ AddSubmit
  \/ AddPushPriority
  \/ AddResume
  \/ AddsDone
  \/ Recategorize
  \/ RecategorizeDone
  \/ RelocatePause
  \/ RelocateSetSavePath
  \/ RelocateSetDownloadPath
  \/ RelocateResume
  \/ RelocateDone
  \/ FileSyncFetch
  \/ FileSyncPush
  \/ FileSyncDone
  \/ ChildDone

Spec == Init /\ [][Next]_vars

\* --------------------------------- specification of the master fetch alone

\* The locals of run_sync and the daemon's flags, at rest.
AtRest ==
  /\ paused = [c \in Range(children) |-> {}]
  /\ ci = 1
  /\ diff = EmptyDiff
  /\ queue = <<>>
  /\ needed = <<>>
  /\ visited = {}
  /\ counts = ZeroCounts
  /\ calls = <<>>
  /\ trace = <<>>
  /\ result = "none"
  /\ reload_failed = FALSE
  /\ fails = 0

\* Seeding times around the threshold, and none at all.
SeedingTimes == {0, min_seed_secs - 1, min_seed_secs, min_seed_secs + 1}

\* Progress values: nothing, half, complete.
ProgressValues == {0, 50, 100}

\* Every raw record the master may list for a torrent that a child mirrors.
RawTorrents ==
  {Torrent(st, pr, seed, "/a", "", "x", AllSelected) :
     st \in RawStates, pr \in ProgressValues, seed \in SeedingTimes}

\* The master lists one torrent, any raw record; the first child holds a
\* copy of it.
FetchInit ==
  /\ \E t \in RawTorrents : master = [h \in {"h1"} |-> t]
  /\ child = [c \in Range(children) |->
               IF c = children[1] THEN [h \in {"h1"} |-> C_Seeding]
               ELSE EmptyMap]
  /\ dry_run = TRUE
  /\ sync_files = FALSE
  /\ treat_stopped \in BOOLEAN
  /\ hashOrder = <<"h1", "h2">>
  /\ pc = "fetch_input"
  /\ master_torrents = EmptyMap
  /\ child_torrents = EmptyMap
  /\ AtRest

\* sync.py:94-124 applied to the listing.
FetchApply ==
  /\ pc = "fetch_input"
  /\ master_torrents' =
       fetch_master_torrents(master, min_seed_secs, treat_stopped)
  /\ pc' = "fetch_output"
  /\ UNCHANGED <<cfgvars, envvars, ci, child_torrents, diff, queue, needed,
                 visited, counts, calls, trace, result, reload_failed, fails>>

\* sync.py:584-587 applied to the snapshot and the first child.
FetchThenDiff ==
  /\ pc = "fetch_output"
  /\ child_torrents' = fetch_child_torrents(child[children[1]])
  /\ diff' = compute_diff(master_torrents, child_torrents', hashOrder)
  /\ pc' = "fetch_diffed"
  /\ UNCHANGED <<cfgvars, envvars, ci, master_torrents, queue, needed,
                 visited, counts, calls, trace, result, reload_failed, fails>>

FetchNext ==
  \/ FetchApply
  \/ FetchThenDiff

FetchSpec == FetchInit /\ [][FetchNext]_vars

\* -------------------------------------- specification of compute_diff alone

\* What a snapshot may hold for a hash: nothing, or an entry.
Shape(present, sp, dp, cat, fp) ==
  [present |-> present, save_path |-> sp, download_path |-> dp,
   category |-> cat, file_priorities |-> fp]

\* The states of TorrentEntry.file_priorities: None, an empty list, every
\* file selected, one file deselected.
PriorityStates ==
  {None, Loaded(<<>>), Loaded(AllSelected), Loaded(SecondDeselected)}

\* Master shapes: h1 varies in every field, h2 in its presence and its
\* file priorities.
MasterShapes ==
  [h1 : {Shape(p, sp, dp, cat, fp) :
           p \in BOOLEAN, sp \in {"/a", "/b"}, dp \in {"", "/t"},
           cat \in {"x", "y"}, fp \in PriorityStates},
   h2 : {Shape(p, "/a", "", "x", fp) :
           p \in BOOLEAN, fp \in {None, Loaded(SecondDeselected)}}]

\* Child shapes: _torrent_to_entry leaves the file priorities unset.
ChildShapes ==
  [h1 : {Shape(p, sp, dp, cat, None) :
           p \in BOOLEAN, sp \in {"/a", "/b"}, dp \in {"", "/t"},
           cat \in {"x", "y"}},
   h2 : {Shape(p, "/a", "", cat, None) :
           p \in BOOLEAN, cat \in {"x", "y"}}]

\* The snapshot map of the shapes: hash -> TorrentEntry.
Snapshot(shapes) ==
  [h \in {k \in DOMAIN shapes : shapes[k].present} |->
     [hash |-> h, save_path |-> shapes[h].save_path,
      category |-> shapes[h].category,
      download_path |-> shapes[h].download_path,
      file_priorities |-> shapes[h].file_priorities]]

DiffInit ==
  /\ \E m \in MasterShapes : master_torrents = Snapshot(m)
  /\ \E c \in ChildShapes : child_torrents = Snapshot(c)
  /\ hashOrder \in Orders
  /\ master = EmptyMap
  /\ child = [c \in Range(children) |-> EmptyMap]
  /\ dry_run = TRUE
  /\ sync_files = TRUE
  /\ treat_stopped = FALSE
  /\ pc = "diff_input"
  /\ paused = [c \in Range(children) |-> {}]
  /\ ci = 1
  /\ diff = EmptyDiff
  /\ queue = <<>>
  /\ needed = <<>>
  /\ visited = {}
  /\ counts = ZeroCounts
  /\ calls = <<>>
  /\ trace = <<>>
  /\ result = "none"
  /\ reload_failed = FALSE
  /\ fails = 0

\* sync.py:158-184 applied to the two snapshots.
DiffApply ==
  /\ pc = "diff_input"
  /\ diff' = compute_diff(master_torrents, child_torrents, hashOrder)
  /\ pc' = "diff_output"
  /\ UNCHANGED <<cfgvars, envvars, ci, master_torrents, child_torrents, queue,
                 needed, visited, counts, calls, trace, result, reload_failed,
                 fails>>

DiffNext == DiffApply

DiffSpec == DiffInit /\ [][DiffNext]_vars

\* ------------------------------ specification of the file-selection sync

\* File priorities as qBittorrent reports them: 0 is "do not download".
Priorities == {0, 1, 7}

PriorityLists == [1..NumFiles -> Priorities]

\* A live cycle with file-selection sync on has fetched the snapshots of the
\* master and of the first child, which hold the same torrent with the same
\* paths and category and any file priorities; the diff is next.
FileSyncInit ==
  /\ \E mp \in PriorityLists :
       /\ master = [h \in {"h1"} |->
                      Torrent("uploading", 100, min_seed_secs, "/a", "", "x", mp)]
       /\ master_torrents =
            [h \in {"h1"} |->
               [torrent_to_entry(h, master[h]) EXCEPT
                  !.file_priorities = Loaded(mp)]]
  /\ \E cp \in PriorityLists :
       child = [c \in Range(children) |->
                  IF c = children[1]
                  THEN [h \in {"h1"} |->
                          Torrent("stalledUP", 100, 0, "/a", "", "x", cp)]
                  ELSE EmptyMap]
  /\ child_torrents = fetch_child_torrents(child[children[1]])
  /\ dry_run = FALSE
  /\ sync_files = TRUE
  /\ treat_stopped = FALSE
  /\ hashOrder = <<"h1", "h2">>
  /\ pc = "c_diff"
  /\ AtRest

\* sync.py:587-605 for that child.
FileSyncNext ==
  \/ ComputeDiff
  \/ FilterStep
  \/ FilterDone
  \/ Report
  \/ ApplyDeletes
  \/ AddsDone
  \/ RecategorizeDone
  \/ RelocateDone
  \/ FileSyncFetch
  \/ FileSyncPush
  \/ FileSyncDone

FileSyncSpec == FileSyncInit /\ [][FileSyncNext]_vars

\* ------------------------------- specification of the daemon relocating

\* The daemon starts in live mode; the master holds one eligible torrent and
\* each child holds it too, under any save path and download path, so that
\* the only category a diff can list it in is to_relocate.
SavePaths == {"/a", "/b"}

DownloadPaths == {"", "/t"}

RelocateInit ==
  /\ \E sp \in SavePaths, dp \in DownloadPaths :
       master = [h \in {"h1"} |->
                   Torrent("uploading", 100, min_seed_secs, sp, dp, "x",
                           AllSelected)]
  /\ \E sp \in [Range(children) -> SavePaths] :
       \E dp \in [Range(children) -> DownloadPaths] :
         child = [c \in Range(children) |->
                    [h \in {"h1"} |->
                       Torrent("stalledUP", 100, 0, sp[c], dp[c], "x",
                               AllSelected)]]
  /\ dry_run = FALSE
  /\ sync_files = FALSE
  /\ treat_stopped = FALSE
  /\ hashOrder = <<"h1", "h2">>
  /\ pc = "load"
  /\ master_torrents = EmptyMap
  /\ child_torrents = EmptyMap
  /\ AtRest

RelocateNext ==
  \/ LoadConfig
  \/ RetrySleep
  \/ StartSync
  \/ SleepInterval
  \/ Interrupt
  \/ PreConnect
  \/ CleanupList
  \/ ConnectMaster
  \/ FetchMasterInfo
  \/ ChildConnect
  \/ ChildFetch
  \/ ComputeDiff
  \/ Report
  \/ ApplyDeletes
  \/ AddsDone
  \/ RecategorizeDone
  \/ RelocatePause
  \/ RelocateSetSavePath
  \/ RelocateSetDownloadPath
  \/ RelocateResume
  \/ RelocateDone
  \/ ChildDone

RelocateSpec == RelocateInit /\ [][RelocateNext]_vars

\* ------------------------------------------------------ reading the logs

Last(s) == s[Len(s)]

CallIds == 1..Len(calls)

StageIds == 1..Len(trace)

\* run_sync has entered the stage for the instance in this cycle.
HasStage(name, who) ==
  \E k \in StageIds : trace[k][1] = name /\ trace[k][2] = who

\* The index in the call log of the first call of the instance's stage.
FirstCallOf(name, who) ==
  LET k == CHOOSE j \in StageIds : trace[j][1] = name /\ trace[j][2] = who
  IN  trace[k][3] + 1

\* The connect of the stage failed.
ConnectFailed(name, who) ==
  /\ HasStage(name, who)
  /\ FirstCallOf(name, who) \in CallIds
  /\ calls[FirstCallOf(name, who)].res # "ok"

\* The calls the apply of the current child has issued so far.
ApplyCallIds ==
  IF HasStage("APPLY", cname)
  THEN {i \in CallIds : i >= FirstCallOf("APPLY", cname)}
  ELSE {}

\* The four lists of a diff that do not depend on the file priorities.
structure_empty(d) ==
  /\ d.to_delete = <<>>
  /\ d.to_add = <<>>
  /\ d.to_recategorize = <<>>
  /\ d.to_relocate = <<>>

\* ------------------------------------------------------------------ C1

\* C1: in dry-run mode the call log of a cycle holds no mutating call, to
\* the master or to a child, whatever the instances hold: not in the stale
\* cleanup, not in the fetches, the diff, the narrowing or the report.
C1_DryRunIssuesNoMutatingCall ==
  dry_run => \A i \in CallIds : calls[i].op \notin MutatingOps

\* A dry-run cycle has returned after the first child held a stale torrent,
\* the narrowing step read a child's files, and a non-empty diff was
\* reported for the last child.
C1_Witness ==
  /\ dry_run
  /\ pc = "after_sync"
  /\ result = "returned"
  /\ to_remove(child[children[1]]) # {}
  /\ \A c \in Range(children) : HasStage("REPORT", c)
  /\ \E i \in CallIds : calls[i].by = "_filter_needed_file_syncs"
  /\ ~is_empty(diff)

\* ------------------------------------------------------------------ C2

\* The file-sync candidates of a diff that the narrowing step would keep
\* when its reads of the child's files succeed.
narrowed(d, m, torrents) ==
  {h \in Range(d.to_sync_files) :
     ~truthy(m[h].file_priorities)
     \/ has_diff(m[h].file_priorities.list, files_of(torrents, h))}

\* The diff of the master snapshot against the current child as it is now.
Recomputed ==
  compute_diff(master_torrents, fetch_child_torrents(child[cname]), hashOrder)

\* C2: once a live apply in which every client call succeeded is over, the
\* diff of the master snapshot against the child's state has empty
\* to_delete, to_add and to_relocate lists, and its to_sync_files list is
\* empty after narrowing.
C2_ApplyIsIdempotent ==
  (/\ pc = "c_done"
   /\ \A i \in ApplyCallIds : calls[i].res = "ok")
  => /\ Recomputed.to_delete = <<>>
     /\ Recomputed.to_add = <<>>
     /\ Recomputed.to_relocate = <<>>
     /\ narrowed(Recomputed, master_torrents, child[cname]) = {}

\* ------------------------------------------------------------------ C3

\* The items of a diff the apply is to process, per category.
AllItems(d, sf) ==
  {<<"delete", h>> : h \in Range(d.to_delete)}
    \cup {<<"add", h>> : h \in Range(d.to_add)}
    \cup {<<"recategorize", h>> : h \in Range(d.to_recategorize)}
    \cup {<<"relocate", h>> : h \in Range(d.to_relocate)}
    \cup (IF sf THEN {<<"sync_files", h>> : h \in Range(d.to_sync_files)}
          ELSE {})

\* The apply of the current child's diff is over: it returned, or an
\* exception left it.
ApplyOver ==
  /\ trace # <<>>
  /\ Last(trace)[1] = "APPLY"
  /\ pc \in {"c_done", "after_sync"}

\* C3: whatever single call failed during the live apply of a diff, every
\* torrent of every category of that diff has been processed when the
\* apply is over.
C3_EveryItemProcessed ==
  ApplyOver => AllItems(diff, sync_files) \subseteq visited

\* ------------------------------------------------------------------ C4

\* C4: a child whose connect fails is skipped, and only it.  In the
\* pre-sync loop it is not cleaned; in the main loop it is not fetched,
\* diffed, reported or applied and gets no further call.  No exception that
\* leaves run_sync comes from a child's connect.  The loops go on: the
\* master is connected to only after every child was tried, and a cycle that
\* returns has tried every child and has fetched, diffed and reported every
\* child it could connect to, and in live mode has applied every such child
\* unless there was nothing to apply.
C4_ChildConnectFailureSkipsOnlyThatChild ==
  /\ \A c \in Range(children) :
       /\ ConnectFailed("PRE_CONNECT", c) => ~HasStage("CLEAN_STALE", c)
       /\ ConnectFailed("CONNECT_CHILD", c) =>
            /\ \A st \in {"FETCH_CHILD", "DIFF", "REPORT", "APPLY"} :
                 ~HasStage(st, c)
            /\ \A i \in CallIds :
                 i > FirstCallOf("CONNECT_CHILD", c) => calls[i].cl # c
  /\ (pc = "after_sync" /\ result = "raised") =>
       ~(Last(calls).op = "auth_log_in" /\ Last(calls).cl # MASTER)
  /\ HasStage("CONNECT_MASTER", MASTER) =>
       \A c \in Range(children) : HasStage("PRE_CONNECT", c)
  /\ (pc = "after_sync" /\ result = "returned") =>
       \A c \in Range(children) :
         /\ HasStage("CONNECT_CHILD", c)
         /\ ~ConnectFailed("CONNECT_CHILD", c) =>
              /\ \A st \in {"FETCH_CHILD", "DIFF", "REPORT"} : HasStage(st, c)
              /\ (~dry_run /\ ~HasStage("APPLY", c)) =>
                   structure_empty(
                     compute_diff(master_torrents,
                                  fetch_child_torrents(child[c]), hashOrder))

\* A live cycle has returned in which the connect to the first child failed
\* in the main loop and the second child was applied.
C4_Witness ==
  /\ pc = "after_sync"
  /\ result = "returned"
  /\ ~dry_run
  /\ ConnectFailed("CONNECT_CHILD", children[1])
  /\ HasStage("APPLY", children[2])

\* ------------------------------------------------------------------ C5

MasterConnectFailed ==
  \E i \in CallIds :
    /\ calls[i].cl = MASTER
    /\ calls[i].op = "auth_log_in"
    /\ calls[i].res # "ok"

\* C5: when the connect to the master failed, run_sync has raised to its
\* caller with that connect as its last call; the cycle has fetched no
\* snapshot, computed no diff, and issued no call of an apply function.
C5_MasterConnectFailureAbortsCycle ==
  MasterConnectFailed =>
    /\ pc = "after_sync"
    /\ result = "raised"
    /\ Last(calls).cl = MASTER /\ Last(calls).op = "auth_log_in"
    /\ \A k \in StageIds :
         trace[k][1] \in {"PRE_CONNECT", "CLEAN_STALE", "CONNECT_MASTER"}
    /\ \A i \in CallIds :
         calls[i].by \in {"_connect", "_cleanup_stale_torrents"}
    /\ master_torrents = EmptyMap
    /\ child_torrents = EmptyMap
    /\ diff = EmptyDiff

\* The connect to the master failed in a live cycle in which the first
\* child's torrents differ from the master's.
C5_Witness ==
  /\ MasterConnectFailed
  /\ result = "raised"
  /\ ~dry_run
  /\ DOMAIN master # DOMAIN child[children[1]]

\* ------------------------------------------------------------------ C6

\* C6: an exception that leaves run_sync is caught by the daemon loop; from
\* there the only step, short of an interrupt, is the sleep that leads to
\* the next iteration, and an iteration whose reload succeeds starts a sync
\* cycle.
C6_FailedCycleIsFollowedByNextIteration ==
  [][/\ (result' = "raised" /\ result # "raised") => pc' = "after_sync"
     /\ pc = "after_sync" => pc' \in {"load", "interrupted"}
     /\ (pc = "load" /\ pc' # "interrupted" /\ ~reload_failed') => pc' = "start"
     /\ pc = "start" => pc' \in {"pre_connect", "interrupted"}]_vars

\* After a cycle that raised, the loop has slept and reloaded and is about
\* to start another cycle.
C6_Witness == pc = "start" /\ result = "raised"

\* ------------------------------------------------------------------ C7

\* The positions inside an iteration's sync cycle.
InCycle == {"start", "after_sync"} \cup RunSyncPcs

\* C7, as stated: after a reload that failed, the iteration is in its sync
\* cycle (about to start it, running it, or sleeping after it).
C7_CycleStillRunsAfterFailedReload ==
  (reload_failed /\ pc \notin {"load", "interrupted", "exited"})
    => pc \in InCycle

\* C7, amended: an iteration whose reload failed runs no sync cycle; a
\* sync cycle runs only in an iteration whose reload succeeded.
C7_NoCycleAfterFailedReload == reload_failed => pc \notin InCycle

\* A reload failed after a completed cycle and the loop waits to retry.
C7_Witness == pc = "retry_sleep" /\ reload_failed /\ result = "returned"

\* ------------------------------------------------------------------ C8

\* C8: no reload failure ends the daemon loop.
C8_ReloadFailureNeverEndsDaemon == pc # "exited"

\* ------------------------------------------------------------------ C9

\* The position of each apply function in the category order.
rank(by) ==
  CASE by = "_apply_deletes" -> 1
    [] by = "_apply_adds" -> 2
    [] by = "_apply_recategorize" -> 3
    [] by = "_apply_relocates" -> 4
    [] by = "_apply_file_priority_sync" -> 5
    [] OTHER -> 0

\* The mutating calls an apply function has issued to the child.
DiffCallIds(c) ==
  {i \in CallIds :
     calls[i].cl = c /\ calls[i].op \in MutatingOps /\ rank(calls[i].by) > 0}

\* C9: among the mutating calls of one child's apply, a call of a later
\* category never precedes a call of an earlier one: deletes, adds,
\* set-category calls, relocation calls, file-selection sync calls.
C9_CategoryOrder ==
  \A c \in Range(children) :
    \A i, j \in DiffCallIds(c) :
      i < j => rank(calls[i].by) <= rank(calls[j].by)

\* One child's apply has issued an add, a set-category call, the calls of
\* a relocation and a file-selection sync call.
C9_Witness ==
  /\ pc = "c_done"
  /\ {rank(calls[i].by) : i \in DiffCallIds(cname)} = {2, 3, 4, 5}

\* ----------------------------------------------------------------- C10

\* The child after c in configuration order, if any.
IsNextChild(c, d) ==
  \E n \in 1..(NumChildren - 1) : children[n] = c /\ children[n + 1] = d

IsLastChild(c) == c = children[NumChildren]

\* Stage b may directly follow stage a in a cycle.
Follows(a, b) ==
  LET same == b[2] = a[2]
      next == IsNextChild(a[2], b[2])
      toMaster == b[1] = "CONNECT_MASTER" /\ IsLastChild(a[2])
  IN  CASE a[1] = "PRE_CONNECT" ->
             \/ b[1] = "CLEAN_STALE" /\ same
             \/ b[1] = "PRE_CONNECT" /\ next
             \/ toMaster
        [] a[1] = "CLEAN_STALE" -> (b[1] = "PRE_CONNECT" /\ next) \/ toMaster
        [] a[1] = "CONNECT_MASTER" -> b[1] = "FETCH_MASTER"
        [] a[1] = "FETCH_MASTER" ->
             b[1] = "CONNECT_CHILD" /\ b[2] = children[1]
        [] a[1] = "CONNECT_CHILD" ->
             \/ b[1] = "FETCH_CHILD" /\ same
             \/ b[1] = "CONNECT_CHILD" /\ next
        [] a[1] = "FETCH_CHILD" -> b[1] = "DIFF" /\ same
        [] a[1] = "DIFF" -> b[1] = "REPORT" /\ same
        [] a[1] = "REPORT" ->
             \/ b[1] = "APPLY" /\ same
             \/ b[1] = "CONNECT_CHILD" /\ next
        [] a[1] = "APPLY" -> b[1] = "CONNECT_CHILD" /\ next
        [] OTHER -> FALSE

\* The calls issued in the k-th stage of the cycle.
CallsInStage(k) ==
  {i \in CallIds :
     /\ trace[k][3] < i
     /\ k < Len(trace) => i <= trace[k + 1][3]}

\* C10, as stated: no child is contacted before the master was connected
\* to and its torrents were listed.
C10_MasterBeforeAnyChild ==
  \A i \in CallIds :
    calls[i].cl # MASTER =>
      \E j \in 1..(i - 1) :
        /\ calls[j].cl = MASTER
        /\ calls[j].op = "torrents_info"
        /\ calls[j].res = "ok"

\* C10, amended: a cycle starts with the pre-sync loop (per child, in
\* order: connect, then stale cleanup), then connects to the master and
\* fetches its snapshot, then runs per child, in order: connect, child
\* fetch, diff, report and, in live mode, apply; one child finishes before
\* the next starts.  Every call goes to the instance of the stage it is
\* issued in, except that the apply also reads from the master.
C10_StageOrder ==
  /\ trace # <<>> => (trace[1][1] = "PRE_CONNECT" /\ trace[1][2] = children[1])
  /\ \A k \in 1..(Len(trace) - 1) : Follows(trace[k], trace[k + 1])
  /\ \A k \in StageIds : trace[k][1] = "APPLY" => ~dry_run
  /\ \A k \in StageIds :
       \A i \in CallsInStage(k) :
         \/ calls[i].cl = trace[k][2]
         \/ trace[k][1] = "APPLY" /\ calls[i].cl = MASTER

\* A cycle has returned in which the cleaner deleted from the first child
\* and listed the second before the master was connected to, and both
\* children were applied.
C10_Witness ==
  /\ pc = "after_sync"
  /\ result = "returned"
  /\ \E i \in CallIds :
       /\ calls[i].cl = children[1]
       /\ calls[i].op = "torrents_delete"
       /\ calls[i].by = "_cleanup_stale_torrents"
  /\ HasStage("CLEAN_STALE", children[2])
  /\ \A c \in Range(children) : HasStage("APPLY", c)

\* ----------------------------------------------------------------- C11

\* The stated criteria: a state of the completed/seeding family or complete
\* progress, and a seeding time of at least the threshold.
meets_criteria(t) ==
  /\ lower(t.state) \in COMPLETED_STATES \/ t.progress = 100
  /\ t.seeding_time >= min_seed_secs

\* The stopped-as-removed option applies to the torrent.
stopped_as_removed(t) == treat_stopped /\ lower(t.state) \in PAUSED_STATES

C12_StoppedIsRemoved ==
  (treat_stopped /\ pc # "fetch_input") =>
    \A h \in DOMAIN master :
      lower(master[h].state) \in PAUSED_STATES =>
        /\ h \notin DOMAIN master_torrents
        /\ (pc = "fetch_diffed" /\ h \in DOMAIN child[children[1]]) =>
             h \in Range(diff.to_delete)

\* With the option on, a complete, long-seeded torrent that is paused on the
\* master is in the to_delete list of the child that mirrors it.
C12_Witness ==
  /\ treat_stopped
  /\ pc = "fetch_diffed"
  /\ master["h1"].state = "pausedUP"
  /\ master["h1"].progress = 100
  /\ master["h1"].seeding_time > min_seed_secs
  /\ diff.to_delete = <<"h1">>

\* ----------------------------------------------------------------- C13

\* A list of hashes holds each hash of the set once and nothing else.
Lists(l, S) == Range(l) = S /\ Len(l) = Cardinality(S)

\* The reference definition of the diff of snapshot maps m and c, as sets.
ReferenceDiff(m, c) ==
  LET common == (DOMAIN m) \cap (DOMAIN c)
  IN  [to_delete |-> (DOMAIN c) \ (DOMAIN m),
       to_add |-> (DOMAIN m) \ (DOMAIN c),
       to_recategorize |-> {h \in common : m[h].category # c[h].category},
       to_relocate |->
         {h \in common :
            ~(m[h].save_path = c[h].save_path
              /\ m[h].download_path = c[h].download_path)},
       to_sync_files |->
         {h \in common :
            /\ m[h].file_priorities.loaded
            /\ \E i \in DOMAIN m[h].file_priorities.list :
                 m[h].file_priorities.list[i] = 0}]

\* The lists of diff d hold the sets of the reference diff r.
Matches(d, r) ==
  /\ Lists(d.to_delete, r.to_delete)
  /\ Lists(d.to_add, r.to_add)
  /\ Lists(d.to_recategorize, r.to_recategorize)
  /\ Lists(d.to_relocate, r.to_relocate)
  /\ Lists(d.to_sync_files, r.to_sync_files)

\* C13: the diff computed from two snapshot maps holds, list by list, the
\* hashes of the reference definition; no hash is both to delete and to
\* add; and every iteration order gives the same sets.
C13_DiffMatchesReference ==
  pc = "diff_output" =>
    LET r == ReferenceDiff(master_torrents, child_torrents)
    IN  /\ Matches(diff, r)
        /\ Range(diff.to_delete) \cap Range(diff.to_add) = {}
        /\ \A ord \in Orders :
             Matches(compute_diff(master_torrents, child_torrents, ord), r)

\* A diff has been computed in which one torrent differs in its download
\* path only and has a deselected file, and the other is to be deleted.
C13_Witness ==
  /\ pc = "diff_output"
  /\ diff.to_delete = <<"h2">>
  /\ diff.to_relocate = <<"h1">>
  /\ diff.to_sync_files = <<"h1">>
  /\ master_torrents["h1"].save_path = child_torrents["h1"].save_path

\* ----------------------------------------------------------------- C14

\* The add requests that ended in a conflict.
ConflictIds ==
  {i \in CallIds : calls[i].op = "torrents_add" /\ calls[i].res = "conflict"}

\* The positions of the live apply of a child.
ApplyPcs ==
  {"a_delete", "a_add", "a_add_files", "a_add_submit", "a_add_prio",
   "a_add_resume", "a_recat", "a_reloc", "a_reloc_save", "a_reloc_dl",
   "a_reloc_resume", "a_fsync", "a_fsync_push", "c_done"}

\* The entries of list l that come after hash h.
After(l, h) ==
  {l[k] : k \in {n \in 1..Len(l) : \E m \in 1..(n - 1) : l[m] = h}}

\* C14: an add request that ended in a conflict is not counted as added,
\* raises nothing out of the add step, is followed by no priority push and
\* no resume for that torrent, and the entries to add after it are still
\* processed: each is visited or still queued, unless a later call raised.
C14_ConflictIsSkipped ==
  /\ pc \in ApplyPcs =>
       counts.added =
         Cardinality({i \in ApplyCallIds :
                        calls[i].op = "torrents_add" /\ calls[i].res = "ok"})
  /\ \A i \in ConflictIds :
       /\ \A j \in CallIds :
            (j > i /\ calls[j].cl = calls[i].cl /\ calls[j].hs = calls[i].hs)
              => ~(calls[j].by = "_apply_adds"
                   /\ calls[j].op \in {"torrents_file_priority",
                                       "torrents_resume"})
       /\ i = Len(calls) =>
            /\ result # "raised"
            /\ pc \in ApplyPcs \cup {"c_connect", "after_sync", "c_fetch"}
       /\ i \in ApplyCallIds =>
            \A h \in After(diff.to_add, CHOOSE x \in calls[i].hs : TRUE) :
              \/ <<"add", h>> \in visited
              \/ pc = "a_add" /\ h \in Range(queue)
              \/ pc = "after_sync" /\ result = "raised" /\ i < Len(calls)

\* The add of the first of two torrents, one with a deselected file, ended
\* in a conflict; the second was added and the apply is over.
C14_Witness ==
  /\ pc = "c_done"
  /\ Len(diff.to_add) = 2
  /\ \E i \in ConflictIds \cap ApplyCallIds :
       /\ calls[i].hs = {diff.to_add[1]}
       /\ calls[i].arg.is_paused
  /\ counts.added = 1

\* ----------------------------------------------------------------- C15

\* The 0-based indices that are deselected on the master and not
\* deselected on the child; both list the files of the same torrent.
NotYetDeselected(mp, cp) ==
  {n \in 0..(Len(mp) - 1) : mp[n + 1] = 0 /\ cp[n + 1] # 0}

\* The narrowing step failed to fetch the child's files of the torrent.
NarrowingFetchFailed(h) ==
  \E i \in CallIds :
    /\ calls[i].by = "_filter_needed_file_syncs"
    /\ calls[i].hs = {h}
    /\ calls[i].res # "ok"

\* This step issues a priority push of the file-selection sync.
IssuesSyncPush ==
  /\ Len(calls') = Len(calls) + 1
  /\ Last(calls').by = "_apply_file_priority_sync"
  /\ Last(calls').op = "torrents_file_priority"

\* C15: when the narrowing is done, a candidate is kept iff some index
\* deselected on the master is not deselected on the child, or the child's
\* file list could not be fetched; every priority push of the apply step
\* is for exactly the indices deselected on the master and not yet on the
\* child, with priority zero, and is never for an empty set; an apply in
\* which every call succeeded leaves no such index.
C15_FileSelectionSync ==
  /\ [](pc = "c_report" =>
          \A h \in Range(compute_diff(master_torrents, child_torrents,
                                      hashOrder).to_sync_files) :
            h \in Range(diff.to_sync_files)
              <=> \/ NotYetDeselected(master[h].prios,
                                      child[cname][h].prios) # {}
                  \/ NarrowingFetchFailed(h))
  /\ [](pc = "c_done" /\ (\A i \in ApplyCallIds : calls[i].res = "ok") =>
          \A h \in Range(diff.to_sync_files) :
            NotYetDeselected(master[h].prios, child[cname][h].prios) = {})
  /\ [][IssuesSyncPush =>
          LET h == CHOOSE x \in Last(calls').hs : TRUE
              ids == NotYetDeselected(master[h].prios, child[cname][h].prios)
          IN  /\ ids # {}
              /\ Last(calls').arg = [file_ids |-> ids, priority |-> 0]]_vars

\* The master deselects both files, the child had deselected the first
\* only, and the apply has pushed priority zero for the second alone.
C15_Witness ==
  /\ pc = "c_done"
  /\ master["h1"].prios = <<0, 0>> \o [i \in 1..(NumFiles - 2) |-> 1]
  /\ \E i \in ApplyCallIds :
       /\ calls[i].op = "torrents_file_priority"
       /\ calls[i].res = "ok"
       /\ calls[i].arg.file_ids = {1}
  /\ counts.file_synced = 1

\* ---------------------------------------------------------------------
\* C16  Every delete call, of the stale cleaner and of the apply step
\* alike, asks for file preservation: no delete removes content on disk.
DeleteCallIds == {i \in CallIds : calls[i].op = "torrents_delete"}

C16_DeletesPreserveFiles ==
  \A i \in DeleteCallIds :
    /\ calls[i].by \in {"_cleanup_stale_torrents", "_apply_deletes"}
    /\ calls[i].arg = [delete_files |-> FALSE]

\* The cleaner and the apply step have each deleted torrents from a child.
C16_Witness ==
  /\ \E i \in DeleteCallIds :
       calls[i].by = "_cleanup_stale_torrents" /\ calls[i].res = "ok"
  /\ \E i \in DeleteCallIds :
       calls[i].by = "_apply_deletes" /\ calls[i].res = "ok"

\* ---------------------------------------------------------------------
\* C17  An add is submitted paused iff the master entry has a file at
\* priority zero; after a successful paused add, priority zero is pushed to
\* exactly the master-deselected indices and then the torrent is resumed,
\* whether or not the push succeeded; the add step never leaves the added
\* torrent paused.
MasterDeselected(h) ==
  {i - 1 : i \in {j \in 1..Len(master[h].prios) : master[h].prios[j] = 0}}

\* The add loop, at position p, issues its call.
AddIssues(p) == pc = p /\ Len(calls') = Len(calls) + 1

EntryHasZero(h) ==
  LET fp == master_torrents[h].file_priorities
  IN  fp.loaded /\ \E i \in 1..Len(fp.list) : fp.list[i] = 0

AddSubmittedPausedIffDeselected ==
  AddIssues("a_add_submit") =>
    LET c == Last(calls')
    IN  /\ c.op = "torrents_add"
        /\ c.arg.is_paused <=> EntryHasZero(Head(queue))
        /\ pc' = "a_add_prio" <=> (c.arg.is_paused /\ c.res = "ok")

PushThenResume ==
  /\ AddIssues("a_add_prio") =>
       /\ Last(calls').op = "torrents_file_priority"
       /\ Last(calls').hs = {Head(queue)}
       /\ Last(calls').arg =
            [file_ids |-> MasterDeselected(Head(queue)), priority |-> 0]
       /\ pc' = "a_add_resume"
  /\ AddIssues("a_add_resume") =>
       /\ Last(calls').op = "torrents_resume"
       /\ Last(calls').hs = {Head(queue)}

NotLeftPaused == AddIssues("a_add_resume") => Head(queue) \notin paused'[cname]

C17_AddedTorrentNeverLeftPaused ==
  /\ [][AddSubmittedPausedIffDeselected]_vars
  /\ [][PushThenResume]_vars
  /\ [][NotLeftPaused]_vars

\* ---------------------------------------------------------------------
\* C18  Relocation brackets the path change: the pause of a torrent
\* precedes each of its set-save-path and set-download-path calls, the
\* resume follows them, no path is changed when the pause failed, and after
\* a relocation whose calls all succeeded the child's save path and download
\* path equal the master's.
SetPathOps == {"torrents_set_save_path", "torrents_set_download_path"}

\* The calls this cycle's relocation of h on child c has issued.
RelocateCallIds(c, h) ==
  {i \in CallIds : /\ calls[i].by = "_apply_relocates"
                   /\ calls[i].cl = c
                   /\ calls[i].hs = {h}}

\* The relocation of h on child c is between its pause and its last call.
MidRelocation(c, h) ==
  /\ pc \in {"a_reloc_save", "a_reloc_dl", "a_reloc_resume"}
  /\ cname = c
  /\ Head(queue) = h

Bracketed(c, h) ==
  LET ids == RelocateCallIds(c, h)
      pauses == {i \in ids : calls[i].op = "torrents_pause"}
      sets == {i \in ids : calls[i].op \in SetPathOps}
      resumes == {i \in ids : calls[i].op = "torrents_resume"}
  IN  /\ \A i \in sets \cup resumes :
           \E j \in pauses : j < i /\ calls[j].res = "ok"
      /\ \A k \in resumes : \A i \in sets : i < k /\ calls[i].res = "ok"
      /\ (\E j \in pauses : calls[j].res = "raised") => sets = {}
      /\ (/\ ~MidRelocation(c, h)
          /\ pauses # {}
          /\ \A i \in pauses \cup sets : calls[i].res = "ok") => resumes # {}

RelocationCompleted ==
  /\ pc = "a_reloc_resume"
  /\ Len(calls') = Len(calls) + 1
  /\ Last(calls').res = "ok"

PathsEqualMaster ==
  LET h == Head(queue)
  IN  /\ child'[cname][h].save_path = master[h].save_path
      /\ child'[cname][h].download_path = master[h].download_path

C18_RelocationBracketsPathChange ==
  /\ [](\A c \in Range(children) : \A h \in Hashes : Bracketed(c, h))
  /\ [][RelocationCompleted => PathsEqualMaster]_vars

\* A torrent whose save path and download path both differed has been
\* relocated by four successful calls.
C18_Witness ==
  /\ pc = "a_reloc"
  /\ \E c \in Range(children) : \E h \in Hashes :
       LET ids == RelocateCallIds(c, h)
       IN  /\ Cardinality(ids) = 4
           /\ \A i \in ids : calls[i].res = "ok"
           /\ h \notin paused[c]

\* ---------------------------------------------------------------------
\* C19  A torrent left paused on a child because its set-save-path, its
\* set-download-path or its resume failed during a relocation is resumed,
\* with the master's paths, by the next live cycle whose calls all succeed.
\* Read on the daemon relocating, where nothing but a relocation pauses a
\* torrent: at the end of a live cycle whose calls all succeeded no torrent
\* is paused and every path equals the master's.
SuccessfulLiveCycleEnded ==
  /\ pc = "after_sync"
  /\ result = "returned"
  /\ ~dry_run
  /\ calls # <<>>
  /\ \A i \in CallIds : calls[i].res = "ok"

Corrected(c, h) ==
  /\ h \in DOMAIN child[c]
  /\ h \notin paused[c]
  /\ child[c][h].save_path = master[h].save_path
  /\ child[c][h].download_path = master[h].download_path

C19_PausedByRelocationIsCorrected ==
  SuccessfulLiveCycleEnded =>
    \A c \in Range(children) : \A h \in DOMAIN master : Corrected(c, h)

\* ---------------------------------------------------------------------
\* C20  An error of a child after its connect (listing its torrents for the
\* stale cleanup, deleting its stale torrents, fetching its snapshot) aborts
\* that child's processing only: the cycle does not fail by it, the child
\* gets no further call in that loop, and a cycle that returns has tried
\* every child.
PostConnectError(i) ==
  /\ calls[i].res = "raised"
  /\ calls[i].by \in {"_cleanup_stale_torrents", "_fetch_child_torrents"}

C20_PostConnectErrorSkipsOnlyThatChild ==
  /\ \A i \in CallIds :
       PostConnectError(i) =>
         /\ ~(pc = "after_sync" /\ result = "raised" /\ i = Len(calls))
         /\ i < Len(calls) => calls[i + 1].by = "_connect"
  /\ (pc = "after_sync" /\ result = "returned") =>
       \A c \in Range(children) :
         HasStage("PRE_CONNECT", c) /\ HasStage("CONNECT_CHILD", c)

\* ---------------------------------------------------------------------
\* C21  Within a cycle the master snapshot is read-only across children: the
\* diff computed for a child is the diff of the snapshot as fetched at the
\* start of the cycle against that child's torrents, and with the
\* file-selection sync disabled no diff has a file-sync entry.
FetchedWithPriorities(h) ==
  \E i \in CallIds :
    /\ calls[i].by = "_fetch_master_torrents"
    /\ calls[i].op = "torrents_files"
    /\ calls[i].hs = {h}
    /\ calls[i].res = "ok"

\* The master snapshot as _fetch_master_torrents returned it in this cycle.
SnapshotAsFetched ==
  [h \in DOMAIN master_torrents |->
     [master_torrents[h] EXCEPT
        !.file_priorities = IF FetchedWithPriorities(h) THEN @ ELSE None]]

DiffJustComputed == pc = "c_filter" \/ (pc = "c_report" /\ ~sync_files)

C21_MasterSnapshotIsReadOnly ==
  /\ DiffJustComputed =>
       diff = compute_diff(SnapshotAsFetched, child_torrents, hashOrder)
  /\ ~sync_files => diff.to_sync_files = <<>>

\* ---------------------------------------------------------------------
\* C22  From the same master and child state at the start of a cycle, the
\* diff live mode computes for a child has the same five sets as the diff
\* dry-run mode computes for it.  Dry-run mode changes nothing before the
\* diff, so its diff is the diff of the snapshot as fetched against the
\* torrents the child held when the cycle started.
CleanedHashes(c) ==
  UNION {calls[i].hs : i \in {j \in CallIds :
                                 /\ calls[j].by = "_cleanup_stale_torrents"
                                 /\ calls[j].op = "torrents_delete"
                                 /\ calls[j].cl = c
                                 /\ calls[j].res = "ok"}}

\* The hashes the current child held when the cycle started.
HeldAtStart == DOMAIN child_torrents \cup CleanedHashes(cname)

C22_DryRunDiffEqualsLiveDiff ==
  (~dry_run /\ DiffJustComputed) =>
    LET d == compute_diff(SnapshotAsFetched, child_torrents, hashOrder)
    IN  /\ Range(diff.to_add) = DOMAIN master_torrents \ HeldAtStart
        /\ Range(diff.to_delete) = HeldAtStart \ DOMAIN master_torrents
        /\ Range(diff.to_recategorize) = Range(d.to_recategorize)
        /\ Range(diff.to_relocate) = Range(d.to_relocate)
        /\ Range(diff.to_sync_files) = Range(d.to_sync_files)

\* ---------------------------------------------------------------------
\* C23  When the connect to the master failed, the cycle has issued no
\* mutating call to any child.
C23_NoChildMutationWithoutMaster ==
  MasterConnectFailed =>
    \A i \in CallIds :
      calls[i].cl \in Range(children) => calls[i].op \notin MutatingOps

\* ---------------------------------------------------------------------
\* C24  Quiescence: a child that holds exactly the master's eligible
\* torrents, with the same save path, download path, category and file
\* deselections, when a cycle starts gets no mutating call in that cycle.
\* A child changes only by the mutating calls issued to it, so the cycle's
\* first mutating call to a child finds it as it was when the cycle started.
Deselected(prios) == {i \in 1..Len(prios) : prios[i] = 0}

InSync(c) ==
  LET m == fetch_master_torrents(master, min_seed_secs, treat_stopped)
  IN  /\ DOMAIN child[c] = DOMAIN m
      /\ \A h \in DOMAIN m :
           /\ child[c][h].save_path = master[h].save_path
           /\ child[c][h].download_path = master[h].download_path
           /\ child[c][h].category = master[h].category
           /\ Deselected(child[c][h].prios) = Deselected(master[h].prios)

Untouched(c) ==
  \A i \in CallIds : calls[i].cl = c => calls[i].op \notin MutatingOps

QuiescentStep ==
  \A c \in Range(children) :
    (/\ Len(calls') = Len(calls) + 1
     /\ Last(calls').cl = c
     /\ Untouched(c)
     /\ InSync(c)) => Last(calls').op \notin MutatingOps

C24_InSyncChildIsLeftAlone == [][QuiescentStep]_vars

\* ---------------------------------------------------------------------
\* C25  The master is never mutated: every call issued on the master client,
\* in dry-run and in live cycles alike, is an authenticate, a list torrents,
\* a list files or an export.
MasterCallIds == {i \in CallIds : calls[i].cl = MASTER}

C25_MasterIsNeverMutated ==
  \A i \in MasterCallIds :
    /\ calls[i].op \in {"auth_log_in", "torrents_info", "torrents_files",
                        "torrents_export"}
    /\ calls[i].op \notin MutatingOps

\* A live cycle has returned in which the master was asked for each of the
\* four reads and a child got a torrent added.
C25_Witness ==
  /\ pc = "after_sync"
  /\ result = "returned"
  /\ ~dry_run
  /\ \A op \in ReadOps : \E i \in MasterCallIds : calls[i].op = op
  /\ \E i \in CallIds :
       /\ calls[i].cl \in Range(children)
       /\ calls[i].op = "torrents_add"
       /\ calls[i].res = "ok"

====
